---- MODULE Spec2Model ----
(***************************************************************************)
(* Model of the theoremkb web front-end: the REST resource classes         *)
(* (resources.tsx) and the layer-creation / label-shortcut code of the     *)
(* AnnotationClass and AnnotationModel menu containers.                    *)
(*                                                                         *)
(* JavaScript strings are sequences of one-character strings, except that  *)
(* a literal piece of a template string is kept as one token.  A missing   *)
(* property of an object reads as the JavaScript value undefined, whose    *)
(* string conversion is the text "undefined".                              *)
(***************************************************************************)
EXTENDS Integers, Sequences, FiniteSets, TLC

VARIABLES
    \* ---- resources.tsx: url construction ----
    resourceClass,   \* "Layer" | "Annotation": the class url()/listUrl() is called on
    urlParams,       \* the parameter of the call: Undefined or an object
    urlResult,       \* outcome of the last call: none / url string / thrown Error
    \* ---- resources.tsx: pk() ----
    entityA, entityB,  \* two entities of resourceClass
    pkA, pkB,          \* their primary keys once computed
    \* ---- label shortcuts (reduce over the label list) ----
    labels,          \* classInfo.labels / model_api.labels
    labelIdx,        \* index of the next label the reduce hands to its callback
    shortcuts,       \* the accumulator sc
    warnings,        \* labels logged by console.log("Warning: ...")
    \* ---- layer creation ----
    container,       \* "class" (AnnotationClass) | "model" (AnnotationModel)
    cachedList,      \* cache entry of listShape() for resourceId
    inflight,        \* create requests awaiting their response
    nextRid,         \* number of create requests issued
    nextLayerId,     \* next layer id the server hands out
    created,         \* ids of the layers whose creation the client saw succeed, in order
    failures,        \* failed creations the client saw, per triggering control
    selDisabled,     \* target.disabled of the select control
    selValue,        \* target.value of the select control
    selHandler,      \* position of the select's onChange handler
    caught,          \* the error the select's catch callback is handling
    alerts,          \* messages shown with alert.error
    unhandled,       \* rejections no handler caught
    display,         \* ids for which onDisplayChange(id, true) was called -> number of calls
    newLayer,        \* AnnotationClass state newLayer (Null or an id)
    \* ---- optimistic annotation update ----
    serverAnnots,    \* the server's annotations, by primary key
    entityCache,     \* cache entities of AnnotationResource, by primary key
    optimistic,      \* optimistic entities awaiting the server, by primary key
    pendingUpdate    \* the update in flight (params, body) or NoUpdate

urlVars == <<resourceClass, urlParams, urlResult>>
pkVars == <<entityA, entityB, pkA, pkB>>
shortcutVars == <<labels, labelIdx, shortcuts, warnings>>
layerVars == <<container, cachedList, inflight, nextRid, nextLayerId, created, failures,
               selDisabled, selValue, selHandler, caught, alerts, unhandled, display,
               newLayer>>
updateVars == <<serverAnnots, entityCache, optimistic, pendingUpdate>>
vars == <<urlVars, pkVars, shortcutVars, layerVars, updateVars>>

(***************************************************************************)
(* Bounds of the model.                                                    *)
(***************************************************************************)
MaxKeys == 4        \* properties of a parameter object
MaxLabels == 3      \* labels of a class / model
MaxRequests == 3    \* layer creations issued in one behaviour

(***************************************************************************)
(* JavaScript values.                                                      *)
(***************************************************************************)
Undefined == [t |-> "undefined"]
Str(s) == [t |-> "string", s |-> s]
Obj(entries) == [t |-> "object", e |-> entries]
Thrown(msg) == [t |-> "error", message |-> msg]
NoResult == [call |-> "none"]
Result(call, value) == [call |-> call, value |-> value]

\* String(v) as the template literal and the + operator convert an operand.
JsString(v) ==
    IF v.t = "undefined" THEN <<"u", "n", "d", "e", "f", "i", "n", "e", "d">>
    ELSE v.s

\* Object.keys(o): the own property names in insertion order.
Keys(o) == [i \in 1..Len(o.e) |-> o.e[i][1]]

HasKey(o, k) == \E i \in 1..Len(o.e) : o.e[i][1] = k

\* o[k]: the property's value, undefined when the object has no such property.
Get(o, k) ==
    IF HasKey(o, k)
       THEN o.e[CHOOSE i \in 1..Len(o.e) : o.e[i][1] = k][2]
       ELSE Undefined

\* const { k1, k2, ...rest } = o: the other properties, in insertion order.
Rest(o, dropped) ==
    LET keep(entry) == entry[1] \notin dropped
    IN  SelectSeq(o.e, keep)

(***************************************************************************)
(* Property names and the UTF-16 code units URLSearchParams.sort compares. *)
(***************************************************************************)
K_paperId == <<"p", "a", "p", "e", "r", "I", "d">>
K_layerId == <<"l", "a", "y", "e", "r", "I", "d">>
K_id == <<"i", "d">>
K_kind == <<"k", "i", "n", "d">>
K_name == <<"n", "a", "m", "e">>
K_label == <<"l", "a", "b", "e", "l">>

CodeUnit(c) ==
    CASE c = " " -> 32 [] c = "&" -> 38 [] c = "-" -> 45 [] c = "1" -> 49
      [] c = "2" -> 50 [] c = "A" -> 65 [] c = "I" -> 73 [] c = "L" -> 76
      [] c = "P" -> 80 [] c = "a" -> 97 [] c = "b" -> 98 [] c = "d" -> 100
      [] c = "e" -> 101 [] c = "i" -> 105 [] c = "k" -> 107 [] c = "l" -> 108
      [] c = "m" -> 109 [] c = "n" -> 110 [] c = "p" -> 112 [] c = "r" -> 114
      [] c = "x" -> 120 [] c = "y" -> 121

\* a < b in code-unit order, as the sort of URLSearchParams compares names.
RECURSIVE LessCodeUnits(_, _)
LessCodeUnits(a, b) ==
    IF b = <<>> THEN FALSE
    ELSE IF a = <<>> THEN TRUE
    ELSE IF CodeUnit(Head(a)) # CodeUnit(Head(b))
            THEN CodeUnit(Head(a)) < CodeUnit(Head(b))
    ELSE LessCodeUnits(Tail(a), Tail(b))

(***************************************************************************)
(* URLSearchParams: construction from an object, sort(), toString().       *)
(***************************************************************************)
\* new URLSearchParams(record): one name/value pair per property, values
\* converted to strings.
URLSearchParams(entries) ==
    [i \in 1..Len(entries) |-> <<entries[i][1], JsString(entries[i][2])>>]

\* Insert a pair after every pair whose name is not greater (stable).
RECURSIVE InsertSorted(_, _)
InsertSorted(pair, sorted) ==
    IF sorted = <<>> THEN <<pair>>
    ELSE IF LessCodeUnits(pair[1], Head(sorted)[1])
            THEN <<pair>> \o sorted
    ELSE <<Head(sorted)>> \o InsertSorted(pair, Tail(sorted))

\* params.sort(): a stable sort of the pairs by name.
RECURSIVE SortParamsFrom(_, _)
SortParamsFrom(list, sorted) ==
    IF list = <<>> THEN sorted
    ELSE SortParamsFrom(Tail(list), InsertSorted(Head(list), sorted))

NoSortParams(list) == list

SortParams(list) == SortParamsFrom(list, <<>>)

\* The application/x-www-form-urlencoded byte serializer, on one character.
FormEncodeChar(c) ==
    CASE c = " " -> <<"+">>
      [] c = "&" -> <<"%", "2", "6">>
      [] OTHER -> <<c>>

RECURSIVE FormEncode(_)
FormEncode(s) ==
    IF s = <<>> THEN <<>> ELSE FormEncodeChar(Head(s)) \o FormEncode(Tail(s))

\* params.toString(): name=value pairs joined by "&".
RECURSIVE SearchParamsToString(_)
SearchParamsToString(list) ==
    IF list = <<>> THEN <<>>
    ELSE FormEncode(Head(list)[1]) \o <<"=">> \o FormEncode(Head(list)[2])
         \o (IF Len(list) > 1 THEN <<"&">> ELSE <<>>)
         \o SearchParamsToString(Tail(list))

(***************************************************************************)
(* LayerResource and AnnotationResource.                                   *)
(***************************************************************************)
\* LayerResource.prototype.pk, applied to any object that has the fields.
LayerPk(o) == Str(JsString(Get(o, K_paperId)) \o <<"-">> \o JsString(Get(o, K_id)))

AnnotationPk(o) ==
    Str(JsString(Get(o, K_paperId)) \o <<"-">> \o JsString(Get(o, K_layerId))
        \o <<"-">> \o JsString(Get(o, K_id)))

LayerUrl(p) ==
    IF p # Undefined /\ LayerPk(p) # Undefined
       THEN Str(<<"http://localhost:8000/papers/">> \o JsString(Get(p, K_paperId))
                \o <<"/layers/">> \o JsString(Get(p, K_id)))
       ELSE Thrown("Layers require paperId to retrieve")

LayerListUrl(p) ==
    IF p # Undefined /\ Len(Keys(p)) # 0
       THEN LET paperId == Get(p, K_paperId)
                realSearchParams == Rest(p, {K_paperId})
                params == SortParams(URLSearchParams(realSearchParams))
            IN  Str(<<"http://localhost:8000/papers/">> \o JsString(paperId)
                    \o <<"/layers/?">> \o SearchParamsToString(params))
       ELSE Thrown("Layers require paperId to retrieve")

AnnotationUrl(p) ==
    IF p # Undefined /\ AnnotationPk(p) # Undefined
       THEN Str(<<"http://localhost:8000/papers/">> \o JsString(Get(p, K_paperId))
                \o <<"/layers/">> \o JsString(Get(p, K_layerId))
                \o <<"/bbx/">> \o JsString(Get(p, K_id)))
       ELSE Thrown("Layers require paperId and layerId to retrieve")

AnnotationListUrl(p) ==
    IF p # Undefined /\ Len(Keys(p)) # 0
       THEN LET paperId == Get(p, K_paperId)
                layerId == Get(p, K_layerId)
                realSearchParams == Rest(p, {K_paperId, K_layerId})
                params == SortParams(URLSearchParams(realSearchParams))
            IN  Str(<<"http://localhost:8000/papers/">> \o JsString(paperId)
                    \o <<"/layers/">> \o JsString(layerId)
                    \o <<"/bbx/?">> \o SearchParamsToString(params))
       ELSE Thrown("Layers require paperId and layerId to retrieve")

Url(class, p) == IF class = "Layer" THEN LayerUrl(p) ELSE AnnotationUrl(p)

ListUrl(class, p) == IF class = "Layer" THEN LayerListUrl(p) ELSE AnnotationListUrl(p)

\* The ancestor ids a class's urls need.
Ancestors(class) == IF class = "Layer" THEN {K_paperId} ELSE {K_paperId, K_layerId}

(***************************************************************************)
(* Calls of url() and listUrl() on parameter objects of up to MaxKeys      *)
(* properties, in every insertion order.                                   *)
(***************************************************************************)
KeyPool == {K_paperId, K_layerId, K_id, K_kind, K_name}
ValPool == {<<"P", "1">>, <<"a", "&", "b">>}

DistinctKeys(entries) ==
    \A i, j \in 1..Len(entries) : entries[i][1] = entries[j][1] => i = j

ParamObjects ==
    { Obj(e) : e \in { s \in UNION { [1..n -> { <<k, Str(v)>> : k \in KeyPool, v \in ValPool }]
                                      : n \in 0..MaxKeys } : DistinctKeys(s) } }


\* Every insertion order of the same properties.
Reorderings(o) ==
    { Obj([i \in 1..Len(o.e) |-> o.e[f[i]]]) : f \in Permutations(1..Len(o.e)) }

(***************************************************************************)
(* Entities whose pk() is computed.  The ids are free strings; "-" may     *)
(* occur in them.                                                          *)
(***************************************************************************)
IdPool == {<<"P", "1">>, <<"L", "1">>, <<"P", "1", "-", "L", "1">>, <<"L", "1", "-", "L", "1">>}

Entities(class) ==
    IF class = "Layer"
       THEN { Obj(<<<<K_paperId, Str(p)>>, <<K_id, Str(i)>>>>) : p \in IdPool, i \in IdPool }
       ELSE { Obj(<<<<K_paperId, Str(p)>>, <<K_layerId, Str(l)>>, <<K_id, Str(i)>>>>)
                : p \in IdPool, l \in IdPool, i \in IdPool }

Pk(class, o) == IF class = "Layer" THEN LayerPk(o) ELSE AnnotationPk(o)

(***************************************************************************)
(* Rest states of the parts a specification does not exercise.             *)
(***************************************************************************)
Null == [t |-> "null"]
NoUpdate == [t |-> "none"]

UrlIdle == resourceClass = "Layer" /\ urlParams = Undefined /\ urlResult = NoResult

PkIdle == entityA = Undefined /\ entityB = Undefined /\ pkA = NoResult /\ pkB = NoResult

ShortcutIdle == labels = <<>> /\ labelIdx = 1 /\ shortcuts = <<>> /\ warnings = <<>>

NoFailures == [button |-> 0, select |-> 0]

LayerIdle ==
    /\ container = "class" /\ cachedList = Undefined /\ inflight = {}
    /\ nextRid = 0 /\ nextLayerId = 1 /\ created = <<>> /\ failures = NoFailures
    /\ selDisabled = FALSE /\ selValue = "" /\ selHandler = "idle" /\ caught = Null
    /\ alerts = <<>> /\ unhandled = 0 /\ display = <<>> /\ newLayer = Null

UpdateIdle ==
    /\ serverAnnots = <<>> /\ entityCache = <<>> /\ optimistic = <<>>
    /\ pendingUpdate = NoUpdate

(***************************************************************************)
(* SpecUrl: url() and listUrl() called on a parameter object.              *)
(***************************************************************************)
InitUrl ==
    /\ resourceClass \in {"Layer", "Annotation"}
    /\ urlParams \in ParamObjects \cup {Undefined}
    /\ urlResult = NoResult
    /\ PkIdle /\ ShortcutIdle /\ LayerIdle /\ UpdateIdle

CallUrl ==
    /\ urlResult' = Result("url", Url(resourceClass, urlParams))
    /\ UNCHANGED <<resourceClass, urlParams, pkVars, shortcutVars, layerVars, updateVars>>

CallListUrl ==
    /\ urlResult' = Result("listUrl", ListUrl(resourceClass, urlParams))
    /\ UNCHANGED <<resourceClass, urlParams, pkVars, shortcutVars, layerVars, updateVars>>

NextUrl == CallUrl \/ CallListUrl

SpecUrl == InitUrl /\ [][NextUrl]_vars

(***************************************************************************)
(* SpecPk: pk() of two entities of one class.                              *)
(***************************************************************************)
InitPk ==
    /\ resourceClass \in {"Layer", "Annotation"}
    /\ urlParams = Undefined /\ urlResult = NoResult
    /\ entityA \in Entities(resourceClass)
    /\ entityB \in Entities(resourceClass)
    /\ pkA = NoResult /\ pkB = NoResult
    /\ ShortcutIdle /\ LayerIdle /\ UpdateIdle

ComputePk ==
    /\ pkA = NoResult
    /\ pkA' = Result("pk", Pk(resourceClass, entityA))
    /\ pkB' = Result("pk", Pk(resourceClass, entityB))
    /\ UNCHANGED <<entityA, entityB, urlVars, shortcutVars, layerVars, updateVars>>

NextPk == ComputePk

SpecPk == InitPk /\ [][NextPk]_vars

(***************************************************************************)
(* Claims about url(), listUrl() and pk().                                 *)
(***************************************************************************)
LacksAncestor(class, p) ==
    p = Undefined \/ \E k \in Ancestors(class) : ~HasKey(p, k)

\* C1: every call of url() or listUrl() whose parameters lack a required
\* ancestor id (paperId for layers; paperId or layerId for annotations) fails
\* with an error and returns no url string.
C1_MissingAncestorThrows ==
    (urlResult.call \in {"url", "listUrl"} /\ LacksAncestor(resourceClass, urlParams))
        => urlResult.value.t = "error"

\* The query string of a list url: what follows the literal that ends in "?".
QueryOf(url) ==
    LET q == CHOOSE i \in 1..Len(url) : url[i] \in {"/layers/?", "/bbx/?"}
    IN  SubSeq(url, q + 1, Len(url))

\* The names of the name=value pairs of a query string.
QueryNames(q) ==
    LET starts == { i \in 1..Len(q) : i = 1 \/ q[i - 1] = "&" }
        eq(i) == CHOOSE j \in i..Len(q) : q[j] = "=" /\ \A k \in i..(j - 1) : q[k] # "="
    IN  { SubSeq(q, i, eq(i) - 1) : i \in starts }

IndexOfKey(o, k) == CHOOSE i \in 1..Len(o.e) : o.e[i][1] = k

\* C2: for listUrl of either class, parameter objects with the same ancestor
\* ids and the same query pairs give the same url whatever the insertion
\* order, and the query string names exactly the non-ancestor properties.
C2_ListUrlOrderIndependent ==
    (urlResult.call = "listUrl" /\ urlResult.value.t = "string") =>
        /\ \A q \in Reorderings(urlParams) :
              ListUrl(resourceClass, q) = urlResult.value
        /\ QueryNames(QueryOf(urlResult.value.s))
              = { Keys(urlParams)[i] : i \in 1..Len(urlParams.e) } \ Ancestors(resourceClass)

\* C2 witness: an annotation list url was built from an object whose query
\* properties were inserted in descending name order, before the ancestor ids.
C2_Witness ==
    /\ urlResult.call = "listUrl" /\ urlResult.value.t = "string"
    /\ resourceClass = "Annotation"
    /\ \A k \in {K_paperId, K_layerId, K_name, K_kind} : HasKey(urlParams, k)
    /\ IndexOfKey(urlParams, K_name) < IndexOfKey(urlParams, K_kind)
    /\ IndexOfKey(urlParams, K_kind) < IndexOfKey(urlParams, K_paperId)

\* C7: two entities of a class that differ in a component of (paperId, id),
\* resp. (paperId, layerId, id), never have the same primary key.
C7_PkInjective ==
    (pkA.call = "pk" /\ entityA # entityB) => pkA.value # pkB.value

(***************************************************************************)
(* Label shortcuts: labels.reduce((sc, label) => ..., {}).                 *)
(***************************************************************************)
LabelPool ==
    { <<"c", "a", "t">>, <<"c", "a", "r">>, <<"d", "o", "g">>,
      <<"c">>, <<"a", "c">>, <<"c", "c">> }

\* The positions of label whose character is not a property of sc (c in sc).
Unclaimed(sc, label) == { i \in 1..Len(label) : label[i] \notin DOMAIN sc }

Min(S) == CHOOSE x \in S : \A y \in S : x <= y

\* A callback that takes the label's first character without the in-check.
ShortcutStepNoCheck(sc, label) ==
    IF label = <<>> THEN sc ELSE (label[1] :> label) @@ sc

\* The reduce callback: { ...sc, [c]: label } for the first c not in sc,
\* and sc itself when the loop ends without one.
ShortcutStep(sc, label) ==
    IF Unclaimed(sc, label) # {}
       THEN (label[Min(Unclaimed(sc, label))] :> label) @@ sc
       ELSE sc

\* The callback reaches console.log when the loop returned nothing.
WarnsFor(sc, label) == Unclaimed(sc, label) = {}

InitShortcuts ==
    /\ labels \in UNION { [1..n -> LabelPool] : n \in 0..MaxLabels }
    /\ labelIdx = 1
    /\ shortcuts = <<>>
    /\ warnings = <<>>
    /\ UrlIdle /\ PkIdle /\ LayerIdle /\ UpdateIdle

\* One call of the callback by reduce, on the next label of the list.
ReduceStep ==
    /\ labelIdx <= Len(labels)
    /\ shortcuts' = ShortcutStep(shortcuts, labels[labelIdx])
    /\ warnings' = IF WarnsFor(shortcuts, labels[labelIdx])
                      THEN Append(warnings, labels[labelIdx])
                      ELSE warnings
    /\ labelIdx' = labelIdx + 1
    /\ UNCHANGED <<labels, urlVars, pkVars, layerVars, updateVars>>

NextShortcuts == ReduceStep

SpecShortcuts == InitShortcuts /\ [][NextShortcuts]_vars

Occurs(c, label) == \E i \in 1..Len(label) : label[i] = c

\* The positions of label whose character no entry of sc has as its key.
FreeChars(sc, label) == { i \in 1..Len(label) : \A c \in DOMAIN sc : c # label[i] }

\* Each label in turn gets its leftmost character no earlier label claimed,
\* and a label without one leaves the map as it is.
C3_StepIsLeftmostFree ==
    labelIdx' = labelIdx + 1 =>
        LET label == labels[labelIdx]
            free == FreeChars(shortcuts, label)
        IN  IF free = {}
               THEN shortcuts' = shortcuts
               ELSE /\ DOMAIN shortcuts' = DOMAIN shortcuts \cup {label[Min(free)]}
                    /\ shortcuts'[label[Min(free)]] = label
                    /\ \A c \in DOMAIN shortcuts : shortcuts'[c] = shortcuts[c]

\* Every assigned character occurs in its label, and a label has no more
\* characters than the times it was processed (one per list element).
C3_MapWellFormed ==
    /\ \A c \in DOMAIN shortcuts : Occurs(c, shortcuts[c])
    /\ \A l \in LabelPool :
          Cardinality({ c \in DOMAIN shortcuts : shortcuts[c] = l })
             <= Cardinality({ i \in 1..(labelIdx - 1) : labels[i] = l })

\* The spec's example: ["cat", "car", "dog"] yields c->cat, a->car, d->dog.
C3_Example ==
    (labels = << <<"c", "a", "t">>, <<"c", "a", "r">>, <<"d", "o", "g">> >> /\ labelIdx = 4)
        => shortcuts = ("c" :> <<"c", "a", "t">>) @@ ("a" :> <<"c", "a", "r">>)
                          @@ ("d" :> <<"d", "o", "g">>)

Arr(a) == [t |-> "array", a |-> a]
NoReply == [kind |-> "none"]

Extractors == {"X", "Y"}
Messages == {"layer exists"}

\* What a create request can end with: the created layer, an error response
\* with a JSON body { message }, an error response whose body is no JSON.
\* A request can also end without any response (fetch rejects with a
\* TypeError): see NetworkFailure.
OkReply(id) == [kind |-> "ok", id |-> id]
JsonErrorReply(m) == [kind |-> "http_json", message |-> m]
TextErrorReply == [kind |-> "http_text"]
NetworkError == [kind |-> "network", message |-> "Failed to fetch"]

\* The update function given for listShape(), written with the new id first.
UpdateFnPrepend(newAnnotation, currentAnnotations) ==
    Arr(<<newAnnotation>>
        \o (IF currentAnnotations = Undefined THEN <<>> ELSE currentAnnotations.a))

\* (newAnnotation, currentAnnotations) => [...(currentAnnotations || []), newAnnotation]
UpdateFn(newAnnotation, currentAnnotations) ==
    Arr((IF currentAnnotations = Undefined THEN <<>> ELSE currentAnnotations.a)
        \o <<newAnnotation>>)

\* An updater that also runs for a failed request, on the id-less error body.
ApplyUpdatersOnAnyReply(reply, list) ==
    IF reply.kind = "ok" THEN UpdateFn(reply.id, list) ELSE UpdateFn(0, list)

\* The third argument of createAnnotationLayerREST: the cache entry of
\* listShape() after the fetch settled.  The updater runs on the response
\* of a successful create only.
ApplyUpdaters(reply, list) ==
    IF reply.kind = "ok" THEN UpdateFn(reply.id, list) ELSE list

\* props.onDisplayChange(id, true): one more call for id.
OnDisplayChange(disp, id) ==
    IF id \in DOMAIN disp THEN [disp EXCEPT ![id] = @ + 1] ELSE (id :> 1) @@ disp

\* A container that keeps the first layer it highlighted.
SetNewLayerOnce(current, id) == IF current = Null THEN [t |-> "id", id |-> id] ELSE current

\* AnnotationClass.onNewLayer: setNewLayer(id).  AnnotationModel has no such state.
SetNewLayer(current, id) == [t |-> "id", id |-> id]

Request(rid, origin, name, from) ==
    [rid |-> rid, origin |-> origin, name |-> name, from |-> from, reply |-> NoReply]

\* The cache entry before any creation: never fetched, or the list the
\* server returned, in the server's order.
InitialLists == {Undefined, Arr(<<>>), Arr(<<1>>), Arr(<<2, 1>>)}
ExistingIds == {1, 2}

ListIds(list) == IF list = Undefined THEN <<>> ELSE list.a

Init ==
    /\ container \in {"class", "model"}
    /\ cachedList \in InitialLists
    /\ inflight = {}
    /\ nextRid = 0
    /\ nextLayerId = Cardinality(ExistingIds) + 1
    /\ created = <<>>
    /\ failures = NoFailures
    /\ selDisabled = FALSE /\ selValue = "" /\ selHandler = "idle" /\ caught = Null
    /\ alerts = <<>> /\ unhandled = 0 /\ display = <<>> /\ newLayer = Null
    /\ UrlIdle /\ PkIdle /\ ShortcutIdle /\ UpdateIdle

\* <button onClick={() => createAnnotationLayer("Untitled")}>
ClickCreate ==
    /\ nextRid < MaxRequests
    /\ nextRid' = nextRid + 1
    /\ inflight' = inflight \cup {Request(nextRid + 1, "button", <<"Untitled">>, Undefined)}
    /\ UNCHANGED <<container, cachedList, nextLayerId, created, failures, selDisabled,
                   selValue, selHandler, caught, alerts, unhandled, display, newLayer>>
    /\ UNCHANGED <<urlVars, pkVars, shortcutVars, updateVars>>

\* <select onChange=...> with a value other than "", up to the await.
\* A disabled control fires no change event.
SelectChange ==
    /\ ~selDisabled
    /\ nextRid < MaxRequests
    /\ \E v \in Extractors :
          /\ selValue' = v
          /\ inflight' = inflight \cup {Request(nextRid + 1, "select", <<"from.", v>>, Str(v))}
    /\ nextRid' = nextRid + 1
    /\ selDisabled' = TRUE
    /\ selHandler' = "awaiting"
    /\ UNCHANGED <<container, cachedList, nextLayerId, created, failures, caught, alerts,
                   unhandled, display, newLayer>>
    /\ UNCHANGED <<urlVars, pkVars, shortcutVars, updateVars>>

\* The server answers a request: it creates the layer, or refuses.
ServerReply ==
    /\ \E r \in inflight :
          /\ r.reply = NoReply
          /\ \E reply \in {OkReply(nextLayerId), TextErrorReply}
                          \cup { JsonErrorReply(m) : m \in Messages } :
                /\ inflight' = (inflight \ {r}) \cup {[r EXCEPT !.reply = reply]}
                /\ nextLayerId' = IF reply.kind = "ok" THEN nextLayerId + 1 ELSE nextLayerId
    /\ UNCHANGED <<container, cachedList, nextRid, created, failures, selDisabled, selValue,
                   selHandler, caught, alerts, unhandled, display, newLayer>>
    /\ UNCHANGED <<urlVars, pkVars, shortcutVars, updateVars>>

\* The rest of the handler of request r once createAnnotationLayer rejected
\* with an error that has no response, or whose body json() cannot parse:
\* the button has no catch; the select's catch callback throws, so the
\* statements after the await do not run.
Rejected(r) ==
    /\ unhandled' = unhandled + 1
    /\ selHandler' = IF r.origin = "select" THEN "rejected" ELSE selHandler
    /\ caught' = IF r.origin = "select" THEN Null ELSE caught
    /\ UNCHANGED <<selDisabled, selValue, alerts>>

\* fetch rejects: the request or its response is lost.
NetworkFailure ==
    /\ \E r \in inflight :
          /\ inflight' = inflight \ {r}
          /\ failures' = [failures EXCEPT ![r.origin] = @ + 1]
          /\ cachedList' = ApplyUpdaters(NetworkError, cachedList)
          /\ Rejected(r)
    /\ UNCHANGED <<container, nextRid, nextLayerId, created, display, newLayer>>
    /\ UNCHANGED <<urlVars, pkVars, shortcutVars, updateVars>>

\* The client receives the server's answer to request r: the cache applies
\* the updaters and createAnnotationLayer resumes after its await.
Deliver ==
    /\ \E r \in inflight :
          /\ r.reply # NoReply
          /\ inflight' = inflight \ {r}
          /\ cachedList' = ApplyUpdaters(r.reply, cachedList)
          /\ IF r.reply.kind = "ok"
                THEN /\ created' = Append(created, r.reply.id)
                     /\ display' = OnDisplayChange(display, r.reply.id)
                     /\ newLayer' = IF container = "class"
                                       THEN SetNewLayer(newLayer, r.reply.id)
                                       ELSE newLayer
                     /\ IF r.origin = "select"
                           THEN /\ selDisabled' = FALSE
                                /\ selValue' = ""
                                /\ selHandler' = "idle"
                           ELSE UNCHANGED <<selDisabled, selValue, selHandler>>
                     /\ UNCHANGED <<failures, caught, alerts, unhandled>>
                ELSE /\ failures' = [failures EXCEPT ![r.origin] = @ + 1]
                     /\ IF r.origin = "select"
                           THEN /\ selHandler' = "parsing"
                                /\ caught' = r.reply
                                /\ UNCHANGED unhandled
                           ELSE /\ unhandled' = unhandled + 1
                                /\ UNCHANGED <<selHandler, caught>>
                     /\ UNCHANGED <<created, display, newLayer, selDisabled, selValue, alerts>>
    /\ UNCHANGED <<container, nextRid, nextLayerId>>
    /\ UNCHANGED <<urlVars, pkVars, shortcutVars, updateVars>>

\* await e.response.json() settles in the select's catch callback.
BodyParsed ==
    /\ selHandler = "parsing"
    /\ IF caught.kind = "http_json"
          THEN /\ alerts' = Append(alerts, caught.message)
               /\ selDisabled' = FALSE
               /\ selValue' = ""
               /\ selHandler' = "idle"
               /\ UNCHANGED unhandled
          ELSE /\ selHandler' = "rejected"
               /\ unhandled' = unhandled + 1
               /\ UNCHANGED <<alerts, selDisabled, selValue>>
    /\ caught' = Null
    /\ UNCHANGED <<container, cachedList, inflight, nextRid, nextLayerId, created, failures,
                   display, newLayer>>
    /\ UNCHANGED <<urlVars, pkVars, shortcutVars, updateVars>>

Next == ClickCreate \/ SelectChange \/ ServerReply \/ NetworkFailure \/ Deliver \/ BodyParsed

Spec == Init /\ [][Next]_vars

(***************************************************************************)
(* AnnotationResource.updateShape with its optimisticUpdate.  The cache    *)
(* keeps entities by primary key; while an update is in flight the entity  *)
(* made by optimisticUpdate is laid over the cache under its own primary   *)
(* key, and it is dropped when the server's answer arrives.                *)
(***************************************************************************)
AnnotationFields == {K_paperId, K_layerId, K_id, K_label}
LabelValues == {<<"x">>, <<"y">>}

\* The properties of more set on an object, in order ({ ...o, ...more }).
RECURSIVE Assign(_, _)
Assign(entries, more) ==
    IF more = <<>> THEN entries
    ELSE LET k == Head(more)[1]
             set == IF \E i \in 1..Len(entries) : entries[i][1] = k
                       THEN [i \in 1..Len(entries) |->
                               IF entries[i][1] = k THEN Head(more) ELSE entries[i]]
                       ELSE Append(entries, Head(more))
         IN  Assign(set, Tail(more))

\* optimisticUpdate: (params, body) => ({ id: params.id, ...body })
OptimisticUpdate(params, body) ==
    Obj(Assign(<<<<K_id, Get(params, K_id)>>>>, body.e))

\* An entity of the cache with the properties of o set on it.
MergeEntity(entity, o) ==
    [k \in AnnotationFields |-> IF HasKey(o, k) THEN Get(o, k) ELSE entity[k]]

\* new AnnotationResource(): every field an empty string.
DefaultAnnotation == [k \in AnnotationFields |-> Str(<<>>)]

Annotation(paperId, layerId, id, label) ==
    (K_paperId :> Str(paperId)) @@ (K_layerId :> Str(layerId)) @@ (K_id :> Str(id))
        @@ (K_label :> Str(label))

EntityPk(entity) ==
    AnnotationPk(Obj(<<<<K_paperId, entity[K_paperId]>>, <<K_layerId, entity[K_layerId]>>,
                       <<K_id, entity[K_id]>>>>)).s

UrlParamsOf(entity) ==
    Obj(<<<<K_paperId, entity[K_paperId]>>, <<K_layerId, entity[K_layerId]>>,
          <<K_id, entity[K_id]>>>>)

\* What a component reading the cache sees: the optimistic entities over
\* the cached ones.
Visible ==
    [pk \in DOMAIN entityCache \cup DOMAIN optimistic |->
        IF pk \in DOMAIN optimistic
           THEN MergeEntity(IF pk \in DOMAIN entityCache THEN entityCache[pk]
                                                          ELSE DefaultAnnotation,
                            optimistic[pk])
           ELSE entityCache[pk]]

\* Two annotations with the same id in two layers of one paper.
InitialAnnotations ==
    { (EntityPk(a) :> a) @@ (EntityPk(b) :> b) :
        a \in { Annotation(<<"P", "1">>, <<"L", "1">>, <<"A", "1">>, l) : l \in LabelValues },
        b \in { Annotation(<<"P", "1">>, <<"L", "2">>, <<"A", "1">>, l) : l \in LabelValues } }

\* The bodies of an update of entity: any part of its fields, the label
\* edited or not (a body's properties are taken in one insertion order).
BodyPairs(entity) ==
    { <<k, entity[k]>> : k \in AnnotationFields } \cup { <<K_label, Str(l)>> : l \in LabelValues }

Bodies(entity) ==
    { Obj(e) : e \in { s \in UNION { [1..n -> BodyPairs(entity)]
                                        : n \in 0..Cardinality(AnnotationFields) } :
                          \A i \in 1..(Len(s) - 1) : LessCodeUnits(s[i][1], s[i + 1][1]) } }

InitUpdate ==
    /\ serverAnnots \in InitialAnnotations
    /\ entityCache = serverAnnots
    /\ optimistic = <<>>
    /\ pendingUpdate = NoUpdate
    /\ UrlIdle /\ PkIdle /\ ShortcutIdle /\ LayerIdle

\* The fetcher of updateShape() is called with (params, body): the request
\* leaves and the optimistic entity is laid over the cache.
IssueUpdate ==
    /\ pendingUpdate = NoUpdate
    /\ \E pk \in DOMAIN entityCache :
          \E body \in Bodies(entityCache[pk]) :
             LET params == UrlParamsOf(entityCache[pk])
                 entity == OptimisticUpdate(params, body)
             IN  /\ pendingUpdate' = [t |-> "update", params |-> params, body |-> body]
                 /\ optimistic' = (AnnotationPk(entity).s :> entity)
    /\ UNCHANGED <<serverAnnots, entityCache>>
    /\ UNCHANGED <<urlVars, pkVars, shortcutVars, layerVars>>

\* The server stores the body's fields on the annotation of the url (its
\* identity is the url's) and answers with the annotation; the cache takes
\* the answer and drops the optimistic entity.
ServerAccept ==
    /\ pendingUpdate # NoUpdate
    /\ LET pk == AnnotationPk(pendingUpdate.params).s
           identity == [k \in {K_paperId, K_layerId, K_id} |-> serverAnnots[pk][k]]
           answer == identity @@ MergeEntity(serverAnnots[pk], pendingUpdate.body)
       IN  /\ serverAnnots' = [serverAnnots EXCEPT ![pk] = answer]
           /\ entityCache' = (EntityPk(answer) :> answer) @@ entityCache
    /\ optimistic' = <<>>
    /\ pendingUpdate' = NoUpdate
    /\ UNCHANGED <<urlVars, pkVars, shortcutVars, layerVars>>

\* The update fails: the optimistic entity is dropped.
ServerReject ==
    /\ pendingUpdate # NoUpdate
    /\ optimistic' = <<>>
    /\ pendingUpdate' = NoUpdate
    /\ UNCHANGED <<serverAnnots, entityCache>>
    /\ UNCHANGED <<urlVars, pkVars, shortcutVars, layerVars>>

NextUpdate == IssueUpdate \/ ServerAccept \/ ServerReject

SpecUpdate == InitUpdate /\ [][NextUpdate]_vars

\* C8: while an update with params (paperId, layerId, id) and a body is in
\* flight, the cache entry with primary key paperId-layerId-id shows the
\* body's fields, and no other entry is created or changed.
C8_OptimisticEntryIsTheAnnotation ==
    pendingUpdate # NoUpdate =>
        LET pk == AnnotationPk(pendingUpdate.params).s
        IN  /\ DOMAIN Visible = DOMAIN entityCache
            /\ \A k \in AnnotationFields :
                  HasKey(pendingUpdate.body, k) => Visible[pk][k] = Get(pendingUpdate.body, k)
            /\ \A other \in DOMAIN entityCache \ {pk} : Visible[other] = entityCache[other]

(***************************************************************************)
(* Claims about layer creation.                                            *)
(***************************************************************************)
Last(seq) == seq[Len(seq)]

NoDuplicates(seq) == \A i, j \in 1..Len(seq) : seq[i] = seq[j] => i = j

\* A step in which the client sees a creation succeed.
CreationSucceeds == Len(created') = Len(created) + 1

C4_StepAppends ==
    CreationSucceeds =>
        /\ cachedList'.t = "array"
        /\ cachedList'.a = ListIds(cachedList) \o <<Last(created')>>

\* C4: under any interleaving of creations from the button and the select,
\* each successful creation appends exactly the new layer's id at the end of
\* the cached list; earlier entries keep their order, none is removed or
\* duplicated, and an undefined list counts as empty.
C4_CreationAppendsInOrder ==
    /\ [][C4_StepAppends]_vars
    /\ []NoDuplicates(ListIds(cachedList))

\* C4 witness: two creations were in flight together and the later-created
\* layer was delivered first; both ids follow the two layers already cached.
C4_Witness ==
    /\ Len(created) = 2
    /\ created[1] > created[2]
    /\ cachedList = Arr(<<2, 1>> \o created)

\* C5: a failed creation from the select leaves the control re-enabled with
\* value "" and the error message shown as an alert once its handler is
\* over, whatever the failure.
C5_FailureReenablesSelect ==
    selHandler \notin {"awaiting", "parsing"} =>
        /\ selDisabled = FALSE
        /\ selValue = ""
        /\ Len(alerts) = failures.select

\* C6: every failed creation, from the button as from the select, is shown
\* as an alert.
C6_EveryFailureAlerts ==
    Len(alerts) + (IF selHandler = "parsing" THEN 1 ELSE 0)
        = failures.button + failures.select

\* C9: onDisplayChange(id, true) has been called exactly once for every
\* layer created successfully and for no other; in the class container
\* newLayer is the most recently created layer, null before any creation.
C9_NewLayerMarked ==
    /\ DOMAIN display = { created[i] : i \in 1..Len(created) }
    /\ \A id \in DOMAIN display : display[id] = 1
    /\ container = "class" =>
          newLayer = IF created = <<>> THEN Null ELSE [t |-> "id", id |-> Last(created)]

\* C9 witness: in the class container two layers were created and a
\* creation failed.
C9_Witness ==
    /\ container = "class"
    /\ Len(created) = 2
    /\ failures.button + failures.select > 0
    /\ inflight = {}

C10_StepKeepsList == ~CreationSucceeds => cachedList' = cachedList

\* C10: a step that is no successful creation (a request sent, a failure
\* received) leaves the cached list as it is, so the list holds only the
\* layers it held at first and those whose creation succeeded.
C10_FailureKeepsList ==
    /\ [][C10_StepKeepsList]_vars
    /\ [](\A i \in 1..Len(ListIds(cachedList)) :
             \/ ListIds(cachedList)[i] \in ExistingIds
             \/ \E j \in 1..Len(created) : created[j] = ListIds(cachedList)[i])

\* C10 witness: creations failed from the button and from the select, one
\* succeeded, and the list holds the one new layer.
C10_Witness ==
    /\ failures.button > 0
    /\ failures.select > 0
    /\ Len(created) = 1
    /\ cachedList \in {Arr(<<created[1]>>), Arr(<<1, created[1]>>)}

====
